---- MODULE Spec2Model ----
(***************************************************************************)
(* A model of the TinyGo DRV8833 dual H-bridge driver.                     *)
(*                                                                         *)
(* The repository holds three drivers:                                     *)
(*   "Device"     the digital (non-PWM) driver       (part_000, 47-105)    *)
(*   "PWMDevice"  the PWM driver with two PWMs, PwmA and PwmB              *)
(*                                                   (part_000, 118-311)   *)
(*   "PWMDevice1" the earlier PWM driver with one PWM, pwm                 *)
(*                                                   (drv8833.go, 90-158)  *)
(* One driver instance is modelled at a time; which one is fixed by Init.  *)
(* The pins and the PWM peripherals are external: a pin is a level and a   *)
(* mode, a PWM is its Top value and one counter value per channel.         *)
(*                                                                         *)
(* Every exported method is a call made by a thread.  A method that makes  *)
(* more than one hardware access is modelled one access per step, the      *)
(* thread's position being the pc field of its call record, so that the    *)
(* order of the accesses inside one call is part of the model.             *)
(***************************************************************************)
EXTENDS Integers, Sequences, FiniteSets, TLC

\* ------------------------------------------------------------------ bounds

\* Number of threads of control of the calling program.
NumThreads == 2

\* ------------------------------------------------------- sets of the model

\* The channel ids tried (a uint8): the two channels of one PWM peripheral.
Channels == {0, 1}

Threads == 1 .. NumThreads

\* The thread of a single-threaded caller.
MainThread == CHOOSE t \in Threads : \A u \in Threads : t <= u

\* The duty arguments tried (a uint8): zero, a value whose product with a
\* small Top is not a multiple of 100, the maximum, and a value above it.
Duties == {0, 33, 100, 255}

\* The Top values a PWM peripheral reports that are tried (a uint32): a small
\* one, and the smallest one whose product with 100 does not fit 32 bits.
Tops == {255, 42949673}

\* The Top of a PWM the instance does not use.
SmallTop == CHOOSE t \in Tops : \A u \in Tops : t <= u

Drivers == {"Device", "PWMDevice", "PWMDevice1"}

LinePins == {"a1pin", "a2pin", "b1pin", "b2pin"}

AllPins == LinePins \cup {"sleep"}

VARIABLES
    driver,     \* which of the three drivers the instance is
    sleep,      \* level of the sleep pin: TRUE = high = awake
    line,       \* Device: level of each line pin
    pinMode,    \* mode each pin was configured to
    PwmA,       \* PWMDevice: the PWM of h-bridge A, [top, val]
    PwmB,       \* PWMDevice: the PWM of h-bridge B, [top, val]
    pwm,        \* PWMDevice1: the one PWM, [top, val]
    A1, A2,     \* PWM channel ids stored by Configure
    B1, B2,
    call        \* per thread: the call it is in, or the last one it made

vars == <<driver, sleep, line, pinMode, PwmA, PwmB, pwm, A1, A2, B1, B2, call>>

\* ------------------------------------------------------------ uint32 maths

\* uint32(duty) * top, wrapped to 32 bits, then divided by 100, as Go
\* evaluates d.PwmA.Top()*uint32(duty)/100.  The product is formed in two
\* 16-bit halves so that no intermediate value leaves the range of TLC's
\* integers; the result is exactly ((top * duty) % 2^32) \div 100.
DutyValue(top, duty) ==
    LET lo == top % 65536
        hi == top \div 65536
        pl == lo * duty
        ph == (hi * duty + (pl \div 65536)) % 65536
        L  == pl % 65536
    IN  (ph \div 100) * 65536 + (((ph % 100) * 65536 + L) \div 100)

\* ------------------------------------------------------ the PWM capability

\* PWM.Top()
Top(p) == p.top

\* PWM.Set(channel, value)
Set(p, channel, value) == [p EXCEPT !.val[channel] = value]

\* PWM.Get(channel)
Get(p, channel) == p.val[channel]

NewPWM(top) == [top |-> top, val |-> [c \in Channels |-> 0]]

\* ---------------------------------------------------------------- threads

\* The frame of a call: the method, the position in it, its arguments and
\* locals.  arg is the duty as passed, duty the local after clamping; defers
\* is the stack of channels whose Set(channel, 0) was deferred; err records
\* that a capability call made by this call returned an error; gate records
\* that the call has written the sleep pin; again (Sleep and Wake only)
\* records that the thread's previous call was the same method.
NoCall == [op |-> "none", pc |-> "idle", arg |-> 0, duty |-> 0, ch1 |-> 0,
           ch2 |-> 0, slowDecay |-> FALSE, defers |-> <<>>, err |-> FALSE,
           gate |-> FALSE, again |-> FALSE]

Idle(t) == call[t].pc \in {"idle", "done"}

\* A single-threaded caller: a call starts when the thread is in no call.
MayCall(t) == Idle(t)

Enter(t, op, pc) == call' = [call EXCEPT ![t] = [NoCall EXCEPT !.op = op, !.pc = pc]]

Goto(t, pc) == call' = [call EXCEPT ![t].pc = pc]

At(t, op, pc) == call[t].op = op /\ call[t].pc = pc

\* The h-bridge a method of PWMDevice works on; "P" is the one PWM of PWMDevice1.
Bridge(op) ==
    IF op \in {"RunA", "PulseA", "BrakeA", "CoastA"} THEN "A"
    ELSE IF op \in {"RunB", "PulseB", "BrakeB", "CoastB"} THEN "B"
    ELSE "P"

PwmOf(h) == IF h = "A" THEN PwmA ELSE IF h = "B" THEN PwmB ELSE pwm

\* Mutant of SetOn: every Set goes to PwmA, whatever the bridge.
SetOnA(h, channel, value) ==
    /\ PwmA' = Set(PwmA, channel, value)
    /\ PwmB' = PwmB
    /\ pwm'  = pwm

\* d.PwmX.Set(channel, value) on the PWM of bridge h; the other PWMs are untouched.
SetOn(h, channel, value) ==
    /\ PwmA' = IF h = "A" THEN Set(PwmA, channel, value) ELSE PwmA
    /\ PwmB' = IF h = "B" THEN Set(PwmB, channel, value) ELSE PwmB
    /\ pwm'  = IF h = "P" THEN Set(pwm, channel, value) ELSE pwm

Init ==
    /\ driver \in Drivers
    /\ sleep = FALSE
    /\ line = [p \in LinePins |-> FALSE]
    /\ pinMode = [p \in AllPins |-> "unset"]
    /\ \E ta \in Tops, tb \in Tops, tp \in Tops :
          /\ driver = "PWMDevice" => ta # tb
          /\ driver # "PWMDevice" => ta = SmallTop /\ tb = SmallTop
          /\ driver # "PWMDevice1" => tp = SmallTop
          /\ PwmA = NewPWM(ta) /\ PwmB = NewPWM(tb) /\ pwm = NewPWM(tp)
    /\ A1 = 0 /\ A2 = 0 /\ B1 = 0 /\ B2 = 0
    /\ call = [t \in Threads |-> NoCall]

\* ------------------------------------------------------------ Sleep, Wake

\* Mutant of Sleep: going to sleep also clears the registers of PwmA.
SleepClearing(t) ==
    /\ MayCall(t)
    /\ sleep' = FALSE
    /\ PwmA' = NewPWM(Top(PwmA))
    /\ call' = [call EXCEPT ![t] = [NoCall EXCEPT !.op = "Sleep", !.pc = "done",
                           !.gate = TRUE, !.again = (call[t].op = "Sleep")]]
    /\ UNCHANGED <<driver, line, pinMode, PwmB, pwm, A1, A2, B1, B2>>

\* Sleep pulls the sleep pin low (all three drivers).
Sleep(t) ==
    /\ MayCall(t)
    /\ sleep' = FALSE
    /\ call' = [call EXCEPT ![t] = [NoCall EXCEPT !.op = "Sleep", !.pc = "done",
                           !.gate = TRUE, !.again = (call[t].op = "Sleep")]]
    /\ UNCHANGED <<driver, line, pinMode, PwmA, PwmB, pwm, A1, A2, B1, B2>>

\* Mutant of Wake: the sleep pin is toggled instead of pulled high.
WakeToggling(t) ==
    /\ MayCall(t)
    /\ sleep' = ~sleep
    /\ call' = [call EXCEPT ![t] = [NoCall EXCEPT !.op = "Wake", !.pc = "done",
                           !.gate = TRUE, !.again = (call[t].op = "Wake")]]
    /\ UNCHANGED <<driver, line, pinMode, PwmA, PwmB, pwm, A1, A2, B1, B2>>

\* Wake pulls the sleep pin high (all three drivers).
Wake(t) ==
    /\ MayCall(t)
    /\ sleep' = TRUE
    /\ call' = [call EXCEPT ![t] = [NoCall EXCEPT !.op = "Wake", !.pc = "done",
                           !.gate = TRUE, !.again = (call[t].op = "Wake")]]
    /\ UNCHANGED <<driver, line, pinMode, PwmA, PwmB, pwm, A1, A2, B1, B2>>

\* ------------------------------------------------------------ Brake, Coast

\* Mutant of BothLines: only the first line of the bridge is written.
FirstLineOnly(t, op, p1, p2, c1, c2, high) ==
    /\ MayCall(t)
    /\ driver \in {"Device", "PWMDevice"}
    /\ IF driver = "Device"
         THEN /\ line' = [line EXCEPT ![p1] = high]
              /\ UNCHANGED <<PwmA, PwmB, pwm>>
         ELSE /\ LET h == Bridge(op)
                     v == IF high THEN Top(PwmOf(h)) ELSE 0
                 IN  /\ PwmA' = IF h = "A" THEN Set(PwmA, c1, v) ELSE PwmA
                     /\ PwmB' = IF h = "B" THEN Set(PwmB, c1, v) ELSE PwmB
                     /\ pwm' = pwm
              /\ UNCHANGED line
    /\ Enter(t, op, "done")
    /\ UNCHANGED <<driver, sleep, pinMode, A1, A2, B1, B2>>

\* Device: both pins of the bridge to one level.
\* PWMDevice: both stored channels of the bridge to one value.
BothLines(t, op, p1, p2, c1, c2, high) ==
    /\ MayCall(t)
    /\ driver \in {"Device", "PWMDevice"}
    /\ IF driver = "Device"
         THEN /\ line' = [line EXCEPT ![p1] = high, ![p2] = high]
              /\ UNCHANGED <<PwmA, PwmB, pwm>>
         ELSE /\ LET h == Bridge(op)
                     v == IF high THEN Top(PwmOf(h)) ELSE 0
                 IN  /\ PwmA' = IF h = "A" THEN Set(Set(PwmA, c1, v), c2, v) ELSE PwmA
                     /\ PwmB' = IF h = "B" THEN Set(Set(PwmB, c1, v), c2, v) ELSE PwmB
                     /\ pwm' = pwm
              /\ UNCHANGED line
    /\ Enter(t, op, "done")
    /\ UNCHANGED <<driver, sleep, pinMode, A1, A2, B1, B2>>

BrakeA(t) == BothLines(t, "BrakeA", "a1pin", "a2pin", A1, A2, TRUE)

BrakeB(t) == BothLines(t, "BrakeB", "b1pin", "b2pin", B1, B2, TRUE)

CoastA(t) == BothLines(t, "CoastA", "a1pin", "a2pin", A1, A2, FALSE)

CoastB(t) == BothLines(t, "CoastB", "b1pin", "b2pin", B1, B2, FALSE)

\* --------------------------------------------------------------- Run

\* Mutant of Clamp: the duty is used as passed.
ClampNone(duty) == duty

\* if duty > 100 { duty = 100 }
Clamp(duty) == IF duty > 100 THEN 100 ELSE duty

\* The value RunA/RunB set on ch1.
RunCh1Value(top, duty) == DutyValue(top, duty)

\* The value RunA/RunB set on ch2.
RunCh2Value(top, slowDecay) == IF slowDecay THEN top ELSE 0

RunCall(t, op, duty, ch1, ch2, slowDecay) ==
    /\ MayCall(t)
    /\ driver = "PWMDevice"
    /\ call' = [call EXCEPT ![t] = [NoCall EXCEPT !.op = op, !.pc = "set1",
                    !.arg = duty, !.duty = Clamp(duty), !.ch1 = ch1, !.ch2 = ch2,
                    !.slowDecay = slowDecay]]
    /\ UNCHANGED <<driver, sleep, line, pinMode, PwmA, PwmB, pwm, A1, A2, B1, B2>>

RunA(t, duty, ch1, ch2, slowDecay) == RunCall(t, "RunA", duty, ch1, ch2, slowDecay)

RunB(t, duty, ch1, ch2, slowDecay) == RunCall(t, "RunB", duty, ch1, ch2, slowDecay)

\* d.PwmA.Set(ch1, d.PwmA.Top()*uint32(duty)/100)
RunSet1(t) ==
    /\ call[t].op \in {"RunA", "RunB"} /\ call[t].pc = "set1"
    /\ LET c == call[t]
           h == Bridge(c.op)
       IN  SetOn(h, c.ch1, RunCh1Value(Top(PwmOf(h)), c.duty))
    /\ Goto(t, "set2")
    /\ UNCHANGED <<driver, sleep, line, pinMode, A1, A2, B1, B2>>

\* if slowDecay == true { d.PwmA.Set(ch2, d.PwmA.Top()) } else { d.PwmA.Set(ch2, 0) }
RunSet2(t) ==
    /\ call[t].op \in {"RunA", "RunB"} /\ call[t].pc = "set2"
    /\ LET c == call[t]
           h == Bridge(c.op)
       IN  SetOn(h, c.ch2, RunCh2Value(Top(PwmOf(h)), c.slowDecay))
    /\ Goto(t, "gate")
    /\ UNCHANGED <<driver, sleep, line, pinMode, A1, A2, B1, B2>>

\* Mutant of RunGate: the test of the sleep pin is inverted.
RunGateInverted(t) ==
    /\ call[t].op \in {"RunA", "RunB"} /\ call[t].pc = "gate"
    /\ sleep' = (IF sleep = TRUE THEN TRUE ELSE sleep)
    /\ call' = [call EXCEPT ![t].pc = "done", ![t].gate = (sleep = TRUE)]
    /\ UNCHANGED <<driver, line, pinMode, PwmA, PwmB, pwm, A1, A2, B1, B2>>

\* if d.sleep.Get() == false { d.Wake() }
RunGate(t) ==
    /\ call[t].op \in {"RunA", "RunB"} /\ call[t].pc = "gate"
    /\ sleep' = (IF sleep = FALSE THEN TRUE ELSE sleep)
    /\ call' = [call EXCEPT ![t].pc = "done", ![t].gate = (sleep = FALSE)]
    /\ UNCHANGED <<driver, line, pinMode, PwmA, PwmB, pwm, A1, A2, B1, B2>>

\* --------------------------------------------------- PulseA, PulseB

\* The value PulseA/PulseB set on ch1 before waking the chip.
PulseCh1Value(top, duty, slowDecay) == IF slowDecay THEN top ELSE DutyValue(top, duty)

\* Mutant of PulseCh2Value: fast decay holds ch2 high.
PulseCh2ValueHigh(top, duty, slowDecay) == IF slowDecay THEN DutyValue(top, duty) ELSE top

\* The value PulseA/PulseB set on ch2 before waking the chip.
PulseCh2Value(top, duty, slowDecay) == IF slowDecay THEN DutyValue(top, duty) ELSE 0

\* Mutant of PulseDefers: a slow-decay pulse defers nothing.
PulseDefersFastOnly(ch1, ch2, slowDecay) == IF slowDecay THEN <<>> ELSE <<ch1>>

\* Mutant of PulseDefers: a fast-decay pulse defers nothing.
PulseDefersSlowOnly(ch1, ch2, slowDecay) == IF slowDecay THEN <<ch1, ch2>> ELSE <<>>

\* The deferred Set(channel, 0) calls of PulseA/PulseB, in the order they are
\* deferred; they run last deferred first.
PulseDefers(ch1, ch2, slowDecay) == IF slowDecay THEN <<ch1, ch2>> ELSE <<ch1>>

PulseCall(t, op, duty, ch1, ch2, slowDecay) ==
    /\ MayCall(t)
    /\ driver = "PWMDevice"
    /\ call' = [call EXCEPT ![t] = [NoCall EXCEPT !.op = op, !.pc = "set1",
                    !.arg = duty, !.duty = Clamp(duty), !.ch1 = ch1, !.ch2 = ch2,
                    !.slowDecay = slowDecay,
                    !.defers = PulseDefers(ch1, ch2, slowDecay)]]
    /\ UNCHANGED <<driver, sleep, line, pinMode, PwmA, PwmB, pwm, A1, A2, B1, B2>>

PulseA(t, duty, ch1, ch2, slowDecay) == PulseCall(t, "PulseA", duty, ch1, ch2, slowDecay)

PulseB(t, duty, ch1, ch2, slowDecay) == PulseCall(t, "PulseB", duty, ch1, ch2, slowDecay)

\* The first Set of the switch: on ch1.
PulseSet1(t) ==
    /\ call[t].op \in {"PulseA", "PulseB"} /\ call[t].pc = "set1"
    /\ LET c == call[t]
           h == Bridge(c.op)
       IN  SetOn(h, c.ch1, PulseCh1Value(Top(PwmOf(h)), c.duty, c.slowDecay))
    /\ Goto(t, "set2")
    /\ UNCHANGED <<driver, sleep, line, pinMode, A1, A2, B1, B2>>

\* The second Set of the switch: on ch2.
PulseSet2(t) ==
    /\ call[t].op \in {"PulseA", "PulseB"} /\ call[t].pc = "set2"
    /\ LET c == call[t]
           h == Bridge(c.op)
       IN  SetOn(h, c.ch2, PulseCh2Value(Top(PwmOf(h)), c.duty, c.slowDecay))
    /\ Goto(t, "wake")
    /\ UNCHANGED <<driver, sleep, line, pinMode, A1, A2, B1, B2>>

\* ------------------------------------------------- Pulse (PWMDevice1)

\* Mutant of HalfDuty: half of Top, rounded up.
HalfDutyRounded(top) == (top + 1) \div 2

\* The value Pulse sets on ch1: half of Top.
HalfDuty(top) == top \div 2

\* The value Pulse sets on ch2.
PulseOneCh2Value(top, slowDecay) == IF slowDecay THEN top ELSE 0

Pulse(t, ch1, ch2, slowDecay) ==
    /\ MayCall(t)
    /\ driver = "PWMDevice1"
    /\ call' = [call EXCEPT ![t] = [NoCall EXCEPT !.op = "Pulse", !.pc = "period",
                    !.ch1 = ch1, !.ch2 = ch2, !.slowDecay = slowDecay]]
    /\ UNCHANGED <<driver, sleep, line, pinMode, PwmA, PwmB, pwm, A1, A2, B1, B2>>

\* err := d.pwm.SetPeriod(uint64(period)): the PWM either rejects the period
\* and keeps its Top, or takes it, and its Top is then the one of that period.
\* The error is printed and the call goes on.
PulseSetPeriod(t) ==
    /\ At(t, "Pulse", "period")
    /\ \E err \in BOOLEAN, top \in Tops :
          /\ pwm' = [pwm EXCEPT !.top = IF err THEN pwm.top ELSE top]
          /\ call' = [call EXCEPT ![t].pc = "set1", ![t].err = err]
    /\ UNCHANGED <<driver, sleep, line, pinMode, PwmA, PwmB, A1, A2, B1, B2>>

\* d.pwm.Set(ch1, d.pwm.Top()/2)
PulseOneSet1(t) ==
    /\ At(t, "Pulse", "set1")
    /\ SetOn("P", call[t].ch1, HalfDuty(Top(pwm)))
    /\ Goto(t, "set2")
    /\ UNCHANGED <<driver, sleep, line, pinMode, A1, A2, B1, B2>>

\* if slowDecay == true { d.pwm.Set(ch2, d.pwm.Top()) } else { d.pwm.Set(ch2, 0) }
PulseOneSet2(t) ==
    /\ At(t, "Pulse", "set2")
    /\ SetOn("P", call[t].ch2, PulseOneCh2Value(Top(pwm), call[t].slowDecay))
    /\ Goto(t, "wake")
    /\ UNCHANGED <<driver, sleep, line, pinMode, A1, A2, B1, B2>>

\* ------------------------------- the wake / wait / sleep part of a pulse

IsPulse(op) == op \in {"PulseA", "PulseB", "Pulse"}

\* Mutant of PulseWake: the pulse goes on to its wait without waking the gate.
PulseWakeMissing(t) ==
    /\ IsPulse(call[t].op) /\ call[t].pc = "wake"
    /\ Goto(t, "wait")
    /\ UNCHANGED <<driver, sleep, line, pinMode, PwmA, PwmB, pwm, A1, A2, B1, B2>>

\* d.Wake()
PulseWake(t) ==
    /\ IsPulse(call[t].op) /\ call[t].pc = "wake"
    /\ sleep' = TRUE
    /\ call' = [call EXCEPT ![t].pc = "wait", ![t].gate = TRUE]
    /\ UNCHANGED <<driver, line, pinMode, PwmA, PwmB, pwm, A1, A2, B1, B2>>

\* Mutant of PulseWait: ch1 is zeroed when the wait is over, before d.Sleep(),
\* instead of by a deferred call.
PulseWaitZeroing(t) ==
    /\ IsPulse(call[t].op) /\ call[t].pc = "wait"
    /\ SetOn(Bridge(call[t].op), call[t].ch1, 0)
    /\ Goto(t, "sleep")
    /\ UNCHANGED <<driver, sleep, line, pinMode, A1, A2, B1, B2>>

\* time.Sleep(dur) returns: the duration has elapsed.
PulseWait(t) ==
    /\ IsPulse(call[t].op) /\ call[t].pc = "wait"
    /\ Goto(t, "sleep")
    /\ UNCHANGED <<driver, sleep, line, pinMode, PwmA, PwmB, pwm, A1, A2, B1, B2>>

\* Mutant of PulseSleep: the pulse undoes its own Wake by toggling the pin.
PulseSleepToggling(t) ==
    /\ IsPulse(call[t].op) /\ call[t].pc = "sleep"
    /\ sleep' = ~sleep
    /\ Goto(t, IF call[t].defers = <<>> THEN "done" ELSE "defer")
    /\ UNCHANGED <<driver, line, pinMode, PwmA, PwmB, pwm, A1, A2, B1, B2>>

\* Mutant of PulseSleep: the pulse returns without putting the chip to sleep.
PulseSleepSkipped(t) ==
    /\ IsPulse(call[t].op) /\ call[t].pc = "sleep"
    /\ Goto(t, IF call[t].defers = <<>> THEN "done" ELSE "defer")
    /\ UNCHANGED <<driver, sleep, line, pinMode, PwmA, PwmB, pwm, A1, A2, B1, B2>>

\* d.Sleep(); the function then returns, running its deferred calls if any.
PulseSleep(t) ==
    /\ IsPulse(call[t].op) /\ call[t].pc = "sleep"
    /\ sleep' = FALSE
    /\ Goto(t, IF call[t].defers = <<>> THEN "done" ELSE "defer")
    /\ UNCHANGED <<driver, line, pinMode, PwmA, PwmB, pwm, A1, A2, B1, B2>>

\* One deferred d.PwmA.Set(channel, 0), the last deferred first.
PulseDefer(t) ==
    /\ IsPulse(call[t].op) /\ call[t].pc = "defer"
    /\ LET c == call[t]
           n == Len(c.defers)
           rest == SubSeq(c.defers, 1, n - 1)
       IN  /\ SetOn(Bridge(c.op), c.defers[n], 0)
           /\ call' = [call EXCEPT ![t].defers = rest,
                                   ![t].pc = IF rest = <<>> THEN "done" ELSE "defer"]
    /\ UNCHANGED <<driver, sleep, line, pinMode, A1, A2, B1, B2>>

\* ------------------------------------------------------------- Configure

\* The mode Configure gives the four line pins.
LineMode == IF driver = "PWMDevice" THEN "pwm" ELSE "output"

\* The pin Configure handles after pin p, or "done" after the last.
AfterPin(p) ==
    IF p = "a1pin" THEN "a2pin"
    ELSE IF p = "a2pin" THEN "b1pin"
    ELSE IF p = "b1pin" THEN "b2pin"
    ELSE "done"

\* PWM.Channel(pin) of the board, when it does not fail.
PinChannel(p) == IF p \in {"a1pin", "b1pin"} THEN 0 ELSE 1

\* PWM.Channel(pin): the channel of the pin, or 0 and an error.
Channel(p, err) == IF err THEN 0 ELSE PinChannel(p)

Configure(t) ==
    /\ MayCall(t)
    /\ Enter(t, "Configure", "sleeppin")
    /\ UNCHANGED <<driver, sleep, line, pinMode, PwmA, PwmB, pwm, A1, A2, B1, B2>>

\* d.sleep.Configure(machine.PinConfig{Mode: machine.PinOutput})
ConfigureSleepPin(t) ==
    /\ At(t, "Configure", "sleeppin")
    /\ pinMode' = [pinMode EXCEPT !["sleep"] = "output"]
    /\ Goto(t, "sleep")
    /\ UNCHANGED <<driver, sleep, line, PwmA, PwmB, pwm, A1, A2, B1, B2>>

\* Mutant of ConfigureSleep: Configure goes on to the line pins without
\* putting the chip to sleep.
ConfigureSleepSkipped(t) ==
    /\ At(t, "Configure", "sleep")
    /\ Goto(t, "a1pin")
    /\ UNCHANGED <<driver, sleep, line, pinMode, PwmA, PwmB, pwm, A1, A2, B1, B2>>

\* d.Sleep()
ConfigureSleep(t) ==
    /\ At(t, "Configure", "sleep")
    /\ sleep' = FALSE
    /\ call' = [call EXCEPT ![t].pc = "a1pin", ![t].gate = TRUE]
    /\ UNCHANGED <<driver, line, pinMode, PwmA, PwmB, pwm, A1, A2, B1, B2>>

\* Mutant of ConfigurePin: Configure returns at the first Channel error,
\* leaving the pin unbound and the remaining pins unconfigured.
ConfigurePinAborting(t) ==
    /\ call[t].op = "Configure" /\ call[t].pc \in LinePins
    /\ LET p == call[t].pc
       IN  /\ pinMode' = [pinMode EXCEPT ![p] = LineMode]
           /\ \E err \in BOOLEAN :
                 /\ driver = "Device" => ~err
                 /\ LET ch == Channel(p, err)
                        bind == driver # "Device" /\ ~err
                    IN  /\ A1' = IF bind /\ p = "a1pin" THEN ch ELSE A1
                        /\ A2' = IF bind /\ p = "a2pin" THEN ch ELSE A2
                        /\ B1' = IF bind /\ p = "b1pin" THEN ch ELSE B1
                        /\ B2' = IF bind /\ p = "b2pin" THEN ch ELSE B2
                 /\ call' = [call EXCEPT ![t].pc = IF err THEN "done" ELSE AfterPin(p),
                                         ![t].err = call[t].err \/ err]
    /\ UNCHANGED <<driver, sleep, line, PwmA, PwmB, pwm>>

\* Device: the pin is configured as an output.
\* PWMDevice, PWMDevice1: the pin is configured, its channel is asked of the
\* PWM and what Channel returned is stored, error or not.
ConfigurePin(t) ==
    /\ call[t].op = "Configure" /\ call[t].pc \in LinePins
    /\ LET p == call[t].pc
       IN  /\ pinMode' = [pinMode EXCEPT ![p] = LineMode]
           /\ \E err \in BOOLEAN :
                 /\ driver = "Device" => ~err
                 /\ LET ch == Channel(p, err)
                        bind == driver # "Device"
                    IN  /\ A1' = IF bind /\ p = "a1pin" THEN ch ELSE A1
                        /\ A2' = IF bind /\ p = "a2pin" THEN ch ELSE A2
                        /\ B1' = IF bind /\ p = "b1pin" THEN ch ELSE B1
                        /\ B2' = IF bind /\ p = "b2pin" THEN ch ELSE B2
                 /\ call' = [call EXCEPT ![t].pc = AfterPin(p),
                                         ![t].err = call[t].err \/ err]
    /\ UNCHANGED <<driver, sleep, line, PwmA, PwmB, pwm>>

\* =================================================================== claims

\* The PWM register a call's channel argument names, and the Top its PWM reports.
Reg(c, channel) == Get(PwmOf(Bridge(c.op)), channel)

TopFor(c) == Top(PwmOf(Bridge(c.op)))

IsRun(op) == op \in {"RunA", "RunB"}

\* floor(top * duty / 100) over the integers, for duty <= 100, formed without
\* a product larger than top.
FloorPct(top, duty) == (top \div 100) * duty + (((top % 100) * duty) \div 100)

\* The setup step of a run or a pulse is over: both Sets are made; for a
\* pulse the gate is being woken or has just been.
SetupDone(c) ==
    \/ IsRun(c.op) /\ c.pc \in {"gate", "done"}
    \/ IsPulse(c.op) /\ c.pc \in {"wake", "wait"}

\* C1: in every Pulse call (PulseA, PulseB, Pulse of the one-PWM driver), for
\* every duty and decay mode and whatever the gate was before, the gate is
\* awake from the start of the wait until the wait is over, and asleep from
\* the call's Sleep on, in particular when the call has returned.
C1_PulseGate ==
    \A t \in Threads :
        IsPulse(call[t].op) =>
            /\ call[t].pc \in {"wait", "sleep"} => sleep = TRUE
            /\ call[t].pc \in {"defer", "done"} => sleep = FALSE

\* A slow-decay PulseB with a duty above 100 has returned, the gate asleep.
C1_Witness ==
    /\ At(MainThread, "PulseB", "done")
    /\ call[MainThread].slowDecay /\ call[MainThread].arg = 255
    /\ sleep = FALSE

\* C2: what RunA/RunB have set on ch1 is floor(Top*duty/100) for duty in
\* 0..100, and Top for every duty above 100, for every 32-bit Top.
C2_RunDutyValue ==
    \A t \in Threads :
        (IsRun(call[t].op) /\ call[t].pc = "set2") =>
            Reg(call[t], call[t].ch1) = FloorPct(TopFor(call[t]), Clamp(call[t].arg))

\* C3: with slow decay, when the setup step of a run or of a pulse is over,
\* ch2 holds exactly Top (stated for ch1 and ch2 two different channels).
C3_SlowCh2Top ==
    \A t \in Threads :
        (SetupDone(call[t]) /\ call[t].slowDecay /\ call[t].ch1 # call[t].ch2) =>
            Reg(call[t], call[t].ch2) = TopFor(call[t])

\* C4: with fast decay, when the setup step of a run or of a pulse is over,
\* ch2 holds exactly 0.
C4_FastCh2Zero ==
    \A t \in Threads :
        (SetupDone(call[t]) /\ ~call[t].slowDecay) =>
            Reg(call[t], call[t].ch2) = 0

\* A fast-decay PulseA at 33% on two different channels is in its wait.
C4_Witness ==
    /\ At(MainThread, "PulseA", "wait")
    /\ ~call[MainThread].slowDecay /\ call[MainThread].arg = 33
    /\ call[MainThread].ch1 # call[MainThread].ch2
    /\ Get(PwmA, call[MainThread].ch1) # 0
    /\ sleep = TRUE

\* C5 as stated: after a slow-decay PulseA/PulseB has returned, ch1 still
\* holds what it was driven with during the pulse: the duty value the claim
\* names or, as the code drives it, Top (stated for ch1 and ch2 two different
\* channels).
C5_SlowRetains ==
    \A t \in Threads :
        (/\ call[t].op \in {"PulseA", "PulseB"} /\ call[t].pc = "done"
         /\ call[t].slowDecay /\ call[t].ch1 # call[t].ch2) =>
            \/ Reg(call[t], call[t].ch1) = DutyValue(TopFor(call[t]), call[t].duty)
            \/ Reg(call[t], call[t].ch1) = TopFor(call[t])

\* C5 as amended: after a slow-decay PulseA/PulseB has returned, ch1 and ch2
\* both hold 0 (the two deferred Sets have run) and the gate is asleep.
C5_SlowCleared ==
    \A t \in Threads :
        (call[t].op \in {"PulseA", "PulseB"} /\ call[t].pc = "done" /\ call[t].slowDecay) =>
            /\ Reg(call[t], call[t].ch1) = 0
            /\ Reg(call[t], call[t].ch2) = 0
            /\ sleep = FALSE

\* A slow-decay PulseA at 33% on two different channels has returned.
C5_Witness ==
    /\ At(MainThread, "PulseA", "done")
    /\ call[MainThread].slowDecay /\ call[MainThread].arg = 33
    /\ call[MainThread].ch1 # call[MainThread].ch2

\* C6 as stated: after a fast-decay pulse (PulseA, PulseB or Pulse) has
\* returned, ch1 holds 0 and the gate is asleep (stated for ch1 and ch2 two
\* different channels).
C6_FastZeroed ==
    \A t \in Threads :
        (/\ IsPulse(call[t].op) /\ call[t].pc = "done"
         /\ ~call[t].slowDecay /\ call[t].ch1 # call[t].ch2) =>
            /\ Reg(call[t], call[t].ch1) = 0
            /\ sleep = FALSE

\* C6 as amended: after a fast-decay PulseA/PulseB has returned, ch1 holds 0
\* and the gate is asleep; after a fast-decay Pulse of the one-PWM driver the
\* gate is asleep and ch1 still holds Top/2, unless ch2 is the same channel.
C6_FastZeroedAB ==
    \A t \in Threads :
        (IsPulse(call[t].op) /\ call[t].pc = "done" /\ ~call[t].slowDecay) =>
            /\ sleep = FALSE
            /\ call[t].op # "Pulse" => Reg(call[t], call[t].ch1) = 0
            /\ call[t].op = "Pulse" =>
                  Reg(call[t], call[t].ch1) =
                      IF call[t].ch1 = call[t].ch2 THEN 0 ELSE HalfDuty(TopFor(call[t]))

\* A fast-decay PulseB at 100% on two different channels has returned.
C6_Witness ==
    /\ At(MainThread, "PulseB", "done")
    /\ ~call[MainThread].slowDecay /\ call[MainThread].arg = 100
    /\ call[MainThread].ch1 # call[MainThread].ch2
    /\ Top(PwmB) = SmallTop

\* C7: when RunA/RunB has returned the gate is awake, whatever it was before;
\* a run that finds the gate awake does not write the sleep pin.
C7_RunWakes ==
    /\ [](\A t \in Threads : (IsRun(call[t].op) /\ call[t].pc = "done") => sleep = TRUE)
    /\ [][\A t \in Threads :
            (IsRun(call[t].op) /\ call[t].pc = "gate" /\ call'[t].pc = "done") =>
                /\ sleep = TRUE => (sleep' = TRUE /\ ~call'[t].gate)
                /\ sleep = FALSE => (sleep' = TRUE /\ call'[t].gate)]_vars

\* A RunB has returned that found the gate awake and left the pin alone.
C7_Witness ==
    /\ At(MainThread, "RunB", "done")
    /\ ~call[MainThread].gate
    /\ sleep = TRUE

\* The registers and pin levels other than the gate.
outputs == <<line, PwmA, PwmB, pwm>>

\* C8: a Sleep or Wake call changes the gate only: the four line levels and
\* every PWM register are as before, so a Wake after a Sleep gives back the
\* values and the awake gate that a Run left.
C8_GateOnly ==
    [][\A t \in Threads :
          (Idle(t) /\ call'[t] # call[t] /\ call'[t].op \in {"Sleep", "Wake"}) =>
              /\ UNCHANGED outputs
              /\ UNCHANGED <<pinMode, A1, A2, B1, B2>>
              /\ sleep' = (call'[t].op = "Wake")]_vars

\* A Wake that followed a Sleep finds the registers of a slow-decay RunA at
\* 33% still in place.
C8_Witness ==
    /\ At(MainThread, "Wake", "done")
    /\ driver = "PWMDevice" /\ Top(PwmA) = SmallTop
    /\ Get(PwmA, 0) = DutyValue(SmallTop, 33) /\ Get(PwmA, 1) = SmallTop
    /\ sleep = TRUE

\* C9: Wake and Sleep are idempotent: after Wake the gate is awake and after
\* Sleep asleep, also when the call before was the same method.
C9_Idempotent ==
    \A t \in Threads :
        /\ At(t, "Wake", "done") => sleep = TRUE
        /\ At(t, "Sleep", "done") => sleep = FALSE

\* A Wake that directly followed a Wake has returned.
C9_Witness ==
    /\ At(MainThread, "Wake", "done")
    /\ call[MainThread].again
    /\ sleep = TRUE

\* C10: when Brake has returned both lines of the bridge are high (Device:
\* both pins high; PWMDevice: both stored channels at Top); when Coast has
\* returned both are low (both pins low; both channels at 0).
C10_BrakeCoast ==
    \A t \in Threads :
        LET c == call[t]
            isA == Bridge(c.op) = "A"
            p1 == IF isA THEN "a1pin" ELSE "b1pin"
            p2 == IF isA THEN "a2pin" ELSE "b2pin"
            c1 == IF isA THEN A1 ELSE B1
            c2 == IF isA THEN A2 ELSE B2
            high == c.op \in {"BrakeA", "BrakeB"}
        IN  (c.op \in {"BrakeA", "BrakeB", "CoastA", "CoastB"} /\ c.pc = "done") =>
                /\ driver = "Device" => (line[p1] = high /\ line[p2] = high)
                /\ driver = "PWMDevice" =>
                      /\ Reg(c, c1) = (IF high THEN TopFor(c) ELSE 0)
                      /\ Reg(c, c2) = (IF high THEN TopFor(c) ELSE 0)

\* A BrakeA of the PWM driver has returned, A1 and A2 being two channels.
C10_Witness ==
    /\ At(MainThread, "BrakeA", "done")
    /\ driver = "PWMDevice"
    /\ A1 # A2

\* C11: when Configure has returned (all three drivers) the gate is asleep,
\* and inside Configure the gate has been put asleep by the call before any
\* line pin is configured or any channel bound; pins and channels are
\* configured and bound by Configure only.
C11_ConfigureSleeps ==
    /\ [](\A t \in Threads : At(t, "Configure", "done") => sleep = FALSE)
    /\ [][\A t \in Threads :
            (call[t].op = "Configure" /\ call[t].pc \in LinePins /\ call'[t] # call[t]) =>
                (call[t].gate /\ sleep = FALSE)]_vars
    /\ [][((\E p \in LinePins : pinMode'[p] # pinMode[p]) \/ <<A1, A2, B1, B2>>' # <<A1, A2, B1, B2>>) =>
            \E t \in Threads :
                call[t].op = "Configure" /\ call[t].pc \in LinePins /\ call[t].gate]_vars

\* A Configure of the PWM driver has returned: the four pins are PWM pins,
\* the two second channels are bound and the gate is asleep.
C11_Witness ==
    /\ At(MainThread, "Configure", "done")
    /\ driver = "PWMDevice"
    /\ \A p \in LinePins : pinMode[p] = "pwm"
    /\ A2 = 1 /\ B2 = 1
    /\ sleep = FALSE

\* C12: when PulseA/PulseB wake the gate, ch1 and ch2 hold what RunA/RunB
\* set for the same arguments: the duty value on ch1, and on ch2 Top if slow
\* else 0 (stated for ch1 and ch2 two different channels).
C12_PulseIsRun ==
    \A t \in Threads :
        (call[t].op \in {"PulseA", "PulseB"} /\ call[t].pc = "wake"
            /\ call[t].ch1 # call[t].ch2) =>
            /\ Reg(call[t], call[t].ch1) = RunCh1Value(TopFor(call[t]), call[t].duty)
            /\ Reg(call[t], call[t].ch2) = RunCh2Value(TopFor(call[t]), call[t].slowDecay)

\* What the setup step of a pulse sets on ch1 and on ch2.
Ch1Written(c) ==
    IF c.op = "Pulse" THEN TopFor(c) \div 2
    ELSE IF c.slowDecay THEN TopFor(c)
    ELSE DutyValue(TopFor(c), c.duty)

Ch2Written(c) ==
    IF c.op = "Pulse" THEN (IF c.slowDecay THEN TopFor(c) ELSE 0)
    ELSE IF c.slowDecay THEN DutyValue(TopFor(c), c.duty)
    ELSE 0

\* The two channels of a pulse hold what its setup step set (ch2 is set last).
HoldsWritten(c) ==
    /\ Reg(c, c.ch2) = Ch2Written(c)
    /\ c.ch1 # c.ch2 => Reg(c, c.ch1) = Ch1Written(c)

PwmVals == <<PwmA.val, PwmB.val, pwm.val>>

\* C13 as stated: whenever the gate is awake during a pulse call, the two
\* channels hold the values of the pulse.
C13_AwakeHolds ==
    \A t \in Threads :
        (IsPulse(call[t].op) /\ ~Idle(t) /\ sleep = TRUE) => HoldsWritten(call[t])

\* C13 as amended: in one pulse call the channels are written only before
\* the call's own Wake and, for the exit zeroing, only after its Sleep with
\* the gate asleep; from the call's Wake until its Sleep the gate is awake
\* and the channels hold what the setup step set.
C13_Ordered ==
    /\ [](\A t \in Threads :
            (IsPulse(call[t].op) /\ call[t].pc \in {"wait", "sleep"}) =>
                (sleep = TRUE /\ HoldsWritten(call[t])))
    /\ [][\A t \in Threads :
            (IsPulse(call[t].op) /\ ~Idle(t) /\ PwmVals' # PwmVals) =>
                \/ call[t].pc \in {"set1", "set2"} /\ ~call[t].gate
                \/ call[t].pc = "defer" /\ call[t].gate /\ sleep = FALSE /\ sleep' = FALSE]_vars

\* The wait of a slow-decay PulseA at 33% on two different channels is over
\* and its Sleep not yet made: the gate is awake, ch1 at Top.
C13_Witness ==
    /\ At(MainThread, "PulseA", "sleep")
    /\ call[MainThread].slowDecay /\ call[MainThread].arg = 33
    /\ call[MainThread].ch1 # call[MainThread].ch2
    /\ Get(PwmA, call[MainThread].ch1) = Top(PwmA)
    /\ sleep = TRUE

\* The binding Configure stores for a line pin.
Bound(p) ==
    IF p = "a1pin" THEN A1 ELSE IF p = "a2pin" THEN A2
    ELSE IF p = "b1pin" THEN B1 ELSE B2

\* The step that follows each step of the one-PWM Pulse.
AfterPulseStep(pc) ==
    IF pc = "period" THEN "set1" ELSE IF pc = "set1" THEN "set2"
    ELSE IF pc = "set2" THEN "wake" ELSE IF pc = "wake" THEN "wait"
    ELSE IF pc = "wait" THEN "sleep" ELSE "done"

\* C15: errors do not abort. Every step of Configure at a line pin configures
\* the pin, stores what Channel returned (the pin's channel, or the id that
\* came with the error) and goes on to the next pin; Configure returns with
\* all five pins configured and the gate asleep, errors or not. The one-PWM
\* Pulse goes through all its steps whether SetPeriod failed or not, and
\* returns having set both channels, woken the gate and put it asleep again.
C15_FailSoft ==
    /\ [](\A t \in Threads : At(t, "Configure", "done") =>
            /\ pinMode["sleep"] = "output"
            /\ \A p \in LinePins : pinMode[p] = LineMode
            /\ sleep = FALSE
            /\ driver # "Device" =>
                 \A p \in LinePins : Bound(p) \in {PinChannel(p), 0}
            /\ (driver # "Device" /\ ~call[t].err) =>
                 \A p \in LinePins : Bound(p) = PinChannel(p))
    /\ [][\A t \in Threads :
            (call[t].op = "Configure" /\ call[t].pc \in LinePins /\ call'[t] # call[t]) =>
                /\ pinMode'[call[t].pc] = LineMode
                /\ call'[t].pc = AfterPin(call[t].pc)
                /\ call[t].err => call'[t].err]_vars
    /\ [](\A t \in Threads : At(t, "Pulse", "done") =>
            /\ call[t].gate /\ sleep = FALSE
            /\ Get(pwm, call[t].ch2) = (IF call[t].slowDecay THEN Top(pwm) ELSE 0))
    /\ [][\A t \in Threads :
            (call[t].op = "Pulse" /\ ~Idle(t) /\ call'[t] # call[t]) =>
                /\ call'[t].pc = AfterPulseStep(call[t].pc)
                /\ call'[t].err = call[t].err \/ call[t].pc = "period"]_vars

\* Configure of the two-PWM driver has returned after Channel failed for
\* a2pin: the pins after it are configured, b2pin is bound, the gate is asleep.
C15_Witness ==
    /\ At(MainThread, "Configure", "done")
    /\ driver = "PWMDevice" /\ call[MainThread].err
    /\ A2 = 0 /\ B2 = 1
    /\ \A p \in LinePins : pinMode[p] = "pwm"
    /\ sleep = FALSE

\* The channels of a PWM whose value a step changes.
Written(p, q) == {c \in Channels : q.val[c] # p.val[c]}

\* C16: a step of an A operation leaves PwmB as it is and a step of a B
\* operation leaves PwmA as it is; RunA/PulseA (RunB/PulseB) change no channel
\* of their PWM but ch1 and ch2; Brake and Coast leave the gate as it is; the
\* gate changes only in Sleep and Wake, called directly or by Run, Pulse or
\* Configure.
C16_Independent ==
    [][\A t \in Threads :
         call'[t] # call[t] =>
            LET c == call'[t]
            IN  /\ (driver = "PWMDevice" /\ Bridge(c.op) = "A") =>
                      /\ PwmB' = PwmB
                      /\ c.op \in {"RunA", "PulseA"} => Written(PwmA, PwmA') \subseteq {c.ch1, c.ch2}
                /\ (driver = "PWMDevice" /\ Bridge(c.op) = "B") =>
                      /\ PwmA' = PwmA
                      /\ c.op \in {"RunB", "PulseB"} => Written(PwmB, PwmB') \subseteq {c.ch1, c.ch2}
                /\ c.op \in {"BrakeA", "BrakeB", "CoastA", "CoastB"} => sleep' = sleep
                /\ sleep' # sleep =>
                      \/ c.op \in {"Sleep", "Wake"}
                      \/ IsRun(c.op) /\ call[t].pc = "gate"
                      \/ IsPulse(c.op) /\ call[t].pc \in {"wake", "sleep"}
                      \/ c.op = "Configure" /\ call[t].pc = "sleep"]_vars

\* RunB has returned with the gate awake and ch2 of PwmB at Top, and
\* channel 0 of PwmA is still at the Top an earlier BrakeA set.
C16_Witness ==
    /\ At(MainThread, "RunB", "done")
    /\ driver = "PWMDevice"
    /\ call[MainThread].ch1 # call[MainThread].ch2
    /\ Get(PwmB, call[MainThread].ch2) = Top(PwmB)
    /\ Get(PwmA, 0) = Top(PwmA)
    /\ sleep = TRUE

\* C17: the one-PWM Pulse sets ch1 to Top/2 (integer division, Top as it is
\* after SetPeriod) and ch2 to Top if slow else 0; ch2 holds its value from
\* then on and, ch1 and ch2 being two channels, ch1 holds Top/2 from then on,
\* after the return too.
C17_HalfDuty ==
    \A t \in Threads :
        call[t].op = "Pulse" =>
            /\ call[t].pc = "set2" => Get(pwm, call[t].ch1) = Top(pwm) \div 2
            /\ call[t].pc \in {"wake", "wait", "sleep", "done"} =>
                 /\ Get(pwm, call[t].ch2) = (IF call[t].slowDecay THEN Top(pwm) ELSE 0)
                 /\ call[t].ch1 # call[t].ch2 => Get(pwm, call[t].ch1) = Top(pwm) \div 2

\* A slow-decay Pulse on two channels has returned, Top being the large one:
\* ch1 holds half of it and ch2 all of it.
C17_Witness ==
    /\ At(MainThread, "Pulse", "done")
    /\ Top(pwm) # SmallTop
    /\ call[MainThread].slowDecay
    /\ call[MainThread].ch1 # call[MainThread].ch2
    /\ Get(pwm, call[MainThread].ch1) = Top(pwm) \div 2
    /\ Get(pwm, call[MainThread].ch2) = Top(pwm)

\* A step sets no channel of p to a value outside 0 .. Top.
InRange(p, q) == \A c \in Written(p, q) : q.val[c] >= 0 /\ q.val[c] <= Top(q)

\* C18: every value a step sets on a PWM channel is within 0 .. Top of that
\* PWM, the wrapped products included; so is every value Run and Pulse form
\* from a Top and a clamped duty.
C18_SetInRange ==
    /\ [][InRange(PwmA, PwmA') /\ InRange(PwmB, PwmB') /\ InRange(pwm, pwm')]_vars
    /\ [](\A top \in Tops, duty \in Duties, slowDecay \in BOOLEAN :
            {RunCh1Value(top, Clamp(duty)), RunCh2Value(top, slowDecay),
             PulseCh1Value(top, Clamp(duty), slowDecay),
             PulseCh2Value(top, Clamp(duty), slowDecay),
             HalfDuty(top), PulseOneCh2Value(top, slowDecay)} \subseteq 0 .. top)

\* RunA was called with duty 255 on the PWM with the large Top: the duty was
\* clamped to 100, the product wrapped, and ch1 was set to 0.
C18_Witness ==
    /\ At(MainThread, "RunA", "set2")
    /\ Top(PwmA) # SmallTop
    /\ call[MainThread].arg > 100 /\ call[MainThread].duty = 100
    /\ Get(PwmA, call[MainThread].ch1) = 0

\* C14 as stated: with PulseA on one thread and PulseB on another, the gate
\* is awake from the Wake of each pulse until the Sleep of that same pulse.
C14_OwnWindow ==
    \A t \in Threads, u \in Threads :
        (call[t].op = "PulseA" /\ call[u].op = "PulseB"
            /\ (call[t].pc \in {"wait", "sleep"} \/ call[u].pc \in {"wait", "sleep"})) =>
            sleep = TRUE

\* C14 as amended: the Wake of a pulse leaves the gate awake, and the gate
\* then goes asleep only by the Sleep of a pulse, which is the pulse's own or
\* that of a pulse running on another thread.
C14_UntilAnySleep ==
    /\ [][\A t \in Threads :
            (IsPulse(call[t].op) /\ call[t].pc = "wake" /\ call'[t].pc = "wait") =>
                sleep' = TRUE]_vars
    /\ [][(sleep = TRUE /\ sleep' = FALSE) =>
            \E u \in Threads :
                IsPulse(call[u].op) /\ call[u].pc = "sleep" /\ call'[u].pc # "sleep"]_vars
    /\ [](\A t \in Threads :
            (IsPulse(call[t].op) /\ call[t].pc \in {"wait", "sleep"} /\ sleep = FALSE) =>
                \E u \in Threads \ {t} : IsPulse(call[u].op))

\* PulseA on one thread and PulseB on another are both in their wait, the
\* gate awake: whichever wait ends first puts the other bridge asleep too.
C14_Witness ==
    \E t \in Threads, u \in Threads :
        /\ At(t, "PulseA", "wait") /\ At(u, "PulseB", "wait")
        /\ sleep = TRUE

\* C19: whenever no thread is inside a pulse, all pulses called so far having
\* returned, the gate is asleep; and every pulse a thread is in returns.
C19_AllReturnedAsleep ==
    /\ []((\A t \in Threads : Idle(t)) => sleep = FALSE)
    /\ \A t \in Threads :
          (IsPulse(call[t].op) /\ ~Idle(t)) ~> (IsPulse(call[t].op) /\ call[t].pc = "done")

\* A PulseA and a PulseB on two threads have both returned, each having
\* written the gate, and the gate is asleep.
C19_Witness ==
    \E t \in Threads, u \in Threads :
        /\ At(t, "PulseA", "done") /\ At(u, "PulseB", "done")
        /\ call[t].gate /\ call[u].gate
        /\ sleep = FALSE

Next ==
    \/ Sleep(MainThread)
    \/ Wake(MainThread)
    \/ BrakeA(MainThread)
    \/ BrakeB(MainThread)
    \/ CoastA(MainThread)
    \/ CoastB(MainThread)
    \/ \E duty \in Duties, ch1 \in Channels, ch2 \in Channels, slowDecay \in BOOLEAN :
          \/ RunA(MainThread, duty, ch1, ch2, slowDecay)
          \/ RunB(MainThread, duty, ch1, ch2, slowDecay)
          \/ PulseA(MainThread, duty, ch1, ch2, slowDecay)
          \/ PulseB(MainThread, duty, ch1, ch2, slowDecay)
    \/ \E ch1 \in Channels, ch2 \in Channels, slowDecay \in BOOLEAN :
          Pulse(MainThread, ch1, ch2, slowDecay)
    \/ Configure(MainThread)
    \/ ConfigureSleepPin(MainThread)
    \/ ConfigureSleep(MainThread)
    \/ ConfigurePin(MainThread)
    \/ PulseSet1(MainThread)
    \/ PulseSet2(MainThread)
    \/ PulseSetPeriod(MainThread)
    \/ PulseOneSet1(MainThread)
    \/ PulseOneSet2(MainThread)
    \/ PulseWake(MainThread)
    \/ PulseWait(MainThread)
    \/ PulseSleep(MainThread)
    \/ PulseDefer(MainThread)
    \/ RunSet1(MainThread)
    \/ RunSet2(MainThread)
    \/ RunGate(MainThread)

Spec == Init /\ [][Next]_vars

\* ------------------------------------------------------ concurrent pulses

\* The callers pulse at a duty strictly between off and full.
PulseDuties == {d \in Duties : d > 0 /\ d < 100}

\* A thread calls PulseA, PulseB or, on the one-PWM driver, Pulse, in one
\* polarity: ch1 the lower of two different channels.
PulseCalls(t) ==
    \E ch1 \in Channels, ch2 \in Channels, slowDecay \in BOOLEAN :
        /\ ch1 < ch2
        /\ \/ \E duty \in PulseDuties : PulseA(t, duty, ch1, ch2, slowDecay)
           \/ \E duty \in PulseDuties : PulseB(t, duty, ch1, ch2, slowDecay)
           \/ Pulse(t, ch1, ch2, slowDecay)

\* The next statement of the pulse a thread is in.
PulseStep(t) ==
    \/ PulseSet1(t)
    \/ PulseSet2(t)
    \/ PulseSetPeriod(t)
    \/ PulseOneSet1(t)
    \/ PulseOneSet2(t)
    \/ PulseWake(t)
    \/ PulseWait(t)
    \/ PulseSleep(t)
    \/ PulseDefer(t)

\* Every thread calls pulses, one after another; the statements of the
\* threads interleave.
NextConc == \E t \in Threads : PulseCalls(t) \/ PulseStep(t)

\* A thread inside a pulse goes on to its next statement: no statement of a
\* pulse waits for another thread, and the wait of time.Sleep elapses.
SpecConc == Init /\ [][NextConc]_vars /\ \A t \in Threads : WF_vars(PulseStep(t))

====
